---- MODULE Spec2Model ----
(***************************************************************************)
(* A model of counter-rs: Counter<'a, T>, a HashMap<&T, usize> of          *)
(* occurrence counts (src/src/lib.rs), and the rayon adapter that builds a *)
(* Counter from a parallel iterator (src/src/rayon_iters.rs).              *)
(***************************************************************************)
EXTENDS Integers, Sequences, FiniteSets, TLC

(* ---------------------------------------------------------------- bounds *)

\* Longest sequence handed to init, update, subtract or from_par_iter.
MaxLen == 2

\* Largest count an update may produce in the specifications that stay
\* away from the top of usize (Spec, SpecPar).
MaxCount == 2

\* The elements counted: three distinct values of T (compared by Hash + Eq).
Elems == {"a", "b", "c"}

\* The worker threads of the parallel iterator.
Workers == {"w1", "w2"}

\* usize::BITS, the width of the count type of HashMap<&T, usize>: 64 on
\* the x86_64 target the crate is built for.
USIZE_BITS == 64

\* A usize is held as its base-2^16 digits, the least significant first:
\* the value of u is u[1] + u[2] * 2^16 + u[3] * 2^32 + u[4] * 2^48.
Base == 2 ^ 16

Digits == USIZE_BITS \div 16

\* The usize of a natural number n < 2^31.
RECURSIVE usize_from(_, _)
usize_from(n, i) ==
  IF i > Digits THEN <<>> ELSE <<n % Base>> \o usize_from(n \div Base, i + 1)

usize(n) == usize_from(n, 1)

ZERO == usize(0)

ONE == usize(1)

\* usize::MAX, 2^64 - 1: every digit at its largest.
USIZE_MAX == [i \in 1..Digits |-> Base - 1]

\* u.overflowing_add(w): the digits of the sum modulo 2^64, followed by the
\* carry out of the top digit (1 when the sum does not fit).
add_digits(u, w) ==
  LET t1 == u[1] + w[1]
      t2 == u[2] + w[2] + (t1 \div Base)
      t3 == u[3] + w[3] + (t2 \div Base)
      t4 == u[4] + w[4] + (t3 \div Base)
  IN <<t1 % Base, t2 % Base, t3 % Base, t4 % Base, t4 \div Base>>

\* u.overflowing_sub(w): the digits of the difference modulo 2^64, followed
\* by the borrow out of the top digit (1 when w is larger than u).
sub_digits(u, w) ==
  LET t1 == u[1] - w[1]
      t2 == u[2] - w[2] - (IF t1 < 0 THEN 1 ELSE 0)
      t3 == u[3] - w[3] - (IF t2 < 0 THEN 1 ELSE 0)
      t4 == u[4] - w[4] - (IF t3 < 0 THEN 1 ELSE 0)
  IN <<(t1 + Base) % Base, (t2 + Base) % Base, (t3 + Base) % Base,
       (t4 + Base) % Base, IF t4 < 0 THEN 1 ELSE 0>>

wrapping_add(u, w) == SubSeq(add_digits(u, w), 1, Digits)

wrapping_sub(u, w) == SubSeq(sub_digits(u, w), 1, Digits)

\* u >= w on usize: u - w needs no borrow.
ge(u, w) == sub_digits(u, w)[Digits + 1] = 0

le(u, w) == ge(w, u)

\* Every sequence over Elems of length at most n.
SeqsUpTo(n) == UNION {[1..k -> Elems] : k \in 0..n}

Inputs == SeqsUpTo(MaxLen)

\* How far from either end of usize SpecOverflow lets a count move.
Band == 1

\* Longer inputs, tried beside the short ones.
InitExamples == {<<"a", "b", "a", "c", "a", "b">>, <<"a", "a", "a", "b", "b">>}
SubtractExamples == {<<"a", "a", "a", "a">>}
ParExamples == {<<"a", "b", "a">>}

\* The orders in which the keys of a HashMap may be iterated: HashMap::iter
\* visits every entry once, in an arbitrary order.
Orders(keys) ==
  {o \in [1..Cardinality(keys) -> keys] : \A i, j \in DOMAIN o : i # j => o[i] # o[j]}

(* ------------------------------------------------------------- variables *)

VARIABLES
  hashmap,          \* self.hashmap: a function from the keys present to counts
  overflow_checks,  \* the build: TRUE panics on integer overflow, FALSE wraps
  status,           \* "ok", or the message of the panic that ended the thread
  wrapped,          \* the last operation stored a count that wrapped around
  dec_zero,         \* the last subtract decremented a count of 0
  pc,               \* "collect" while from_par_iter gathers, then "ready"
  lastOp,           \* the last operation applied
  lastArg,          \* the sequence it was given
  pre,              \* self.hashmap before the last operation
  before_update,    \* <<m>>: the last two operations were update(s) then
                    \* subtract(s), and m was the mapping before them
  items,            \* the sequence most_common returned last
  rhs,              \* the right operand of a binary operator
  pre_rhs,          \* rhs before the last binary operator
  counter,          \* the local `counter` of add
  out,              \* <<m>>: the binary operator returned the Counter m
  par_iter,         \* the parallel iterator's items, per worker, as given
  workers,          \* the items each worker has yet to produce
  list              \* the LinkedList the collection step has gathered

vars == <<hashmap, overflow_checks, status, wrapped, dec_zero, pc, lastOp,
          lastArg, pre, before_update, items, rhs, pre_rhs, counter, out,
          par_iter, workers, list>>

opVars == <<rhs, pre_rhs, counter, out>>
parVars == <<workers, list>>

(* ------------------------------------------------------ Counter: lib.rs *)

\* HashMap::new(): no entries.
new == <<>>

NoWorkers == [w \in Workers |-> <<>>]

\* What a loop over the counter carries from one item to the next.
Start(h) == [hashmap |-> h, status |-> "ok", wrapped |-> FALSE, dec_zero |-> FALSE]

\* or_insert with the default off by one: a new key starts at v + 1.
or_insert_one(h, item, v) ==
  IF item \in DOMAIN h THEN h ELSE h @@ (item :> wrapping_add(v, ONE))

\* self.hashmap.entry(item).or_insert(v)
or_insert(h, item, v) == IF item \in DOMAIN h THEN h ELSE h @@ (item :> v)

\* HashMap::remove(item)
remove(h, item) == [k \in DOMAIN h \ {item} |-> h[k]]

\* `*entry += n` on a usize: past usize::MAX the build with overflow checks
\* panics and leaves the entry as it was; the build without them stores the
\* sum modulo 2^64.
add_assign(st, item, n, checks) ==
  LET r == add_digits(st.hashmap[item], n)
      sum == SubSeq(r, 1, Digits)
  IN
  IF r[Digits + 1] = 0
    THEN [st EXCEPT !.hashmap = [st.hashmap EXCEPT ![item] = sum]]
    ELSE IF checks
      THEN [st EXCEPT !.status = "attempt to add with overflow"]
      ELSE [st EXCEPT !.hashmap = [st.hashmap EXCEPT ![item] = sum],
                      !.wrapped = TRUE]

\* update's loop without the increment of a key it has just inserted.
update_item_no_increment(st, item, checks) ==
  IF st.status # "ok" THEN st
  ELSE IF item \in DOMAIN st.hashmap
    THEN add_assign(st, item, ONE, checks)
    ELSE [st EXCEPT !.hashmap = or_insert(st.hashmap, item, ZERO)]

\* One turn of update's loop: entry(item).or_insert(0), then *entry += 1.
update_item(st, item, checks) ==
  IF st.status # "ok" THEN st
  ELSE add_assign([st EXCEPT !.hashmap = or_insert(st.hashmap, item, ZERO)], item, ONE, checks)

\* update's loop stopping one item short.
RECURSIVE update_from_short(_, _, _, _)
update_from_short(st, s, i, checks) ==
  IF i >= Len(s) THEN st
  ELSE update_from_short(update_item(st, s[i], checks), s, i + 1, checks)

RECURSIVE update_from(_, _, _, _)
update_from(st, s, i, checks) ==
  IF i > Len(s) THEN st
  ELSE update_from(update_item(st, s[i], checks), s, i + 1, checks)

\* Counter::update
update(h, s, checks) == update_from(Start(h), s, 1, checks)

\* Counter::init: new() followed by update(iterable).
init(s, checks) == update(new, s, checks)

\* subtract's loop without the removal of an entry that reached zero.
subtract_item_keep_zero(st, item, checks) ==
  IF st.status # "ok" THEN st
  ELSE IF item \notin DOMAIN st.hashmap THEN st
  ELSE LET v == st.hashmap[item] IN
    IF v = ZERO
      THEN [st EXCEPT !.status = "attempt to subtract with overflow", !.dec_zero = TRUE]
      ELSE [st EXCEPT !.hashmap = [st.hashmap EXCEPT ![item] = wrapping_sub(v, ONE)]]

\* subtract's loop removing a present entry whatever its count.
subtract_item_remove_all(st, item, checks) ==
  IF st.status # "ok" THEN st
  ELSE IF item \notin DOMAIN st.hashmap THEN st
  ELSE [st EXCEPT !.hashmap = remove(st.hashmap, item)]

\* One turn of subtract's loop.  `*entry >= 0` holds of every usize, so a
\* present entry is always decremented; below 0 the build with overflow
\* checks panics and the other wraps to usize::MAX.  The entry is removed
\* when the count left is 0.
subtract_item(st, item, checks) ==
  IF st.status # "ok" THEN st
  ELSE IF item \notin DOMAIN st.hashmap THEN st
  ELSE LET v == st.hashmap[item]
           r == sub_digits(v, ONE)
           diff == SubSeq(r, 1, Digits)
       IN
    IF ge(v, ZERO)
      THEN IF r[Digits + 1] = 1
        THEN IF checks
          THEN [st EXCEPT !.status = "attempt to subtract with overflow", !.dec_zero = TRUE]
          ELSE [st EXCEPT !.hashmap = [st.hashmap EXCEPT ![item] = diff],
                          !.wrapped = TRUE, !.dec_zero = TRUE]
        ELSE IF diff = ZERO
          THEN [st EXCEPT !.hashmap = remove(st.hashmap, item)]
          ELSE [st EXCEPT !.hashmap = [st.hashmap EXCEPT ![item] = diff]]
      ELSE IF v = ZERO
        THEN [st EXCEPT !.hashmap = remove(st.hashmap, item)]
        ELSE st

RECURSIVE subtract_from(_, _, _, _)
subtract_from(st, s, i, checks) ==
  IF i > Len(s) THEN st
  ELSE subtract_from(subtract_item(st, s[i], checks), s, i + 1, checks)

\* Counter::subtract
subtract(h, s, checks) == subtract_from(Start(h), s, 1, checks)

\* self.hashmap.iter().collect::<Vec<_>>(): the entries as (key, count)
\* pairs, in the order the HashMap iterates them.
collect(h, order) == [i \in DOMAIN order |-> <<order[i], h[order[i]]>>]

\* sort_by with the comparison the other way round: a.cmp(b).
RECURSIVE sort_by_ascending(_)
sort_by_ascending(v) ==
  IF Len(v) = 0 THEN <<>>
  ELSE LET front == sort_by_ascending(SubSeq(v, 1, Len(v) - 1))
           x == v[Len(v)]
           k == Cardinality({i \in DOMAIN front : le(front[i][2], x[2])})
       IN SubSeq(front, 1, k) \o <<x>> \o SubSeq(front, k + 1, Len(front))

\* items.sort_by(|&(_, a), &(_, b)| b.cmp(a)): a stable sort, larger counts
\* first; entries of equal count keep their relative order.
RECURSIVE sort_by(_)
sort_by(v) ==
  IF Len(v) = 0 THEN <<>>
  ELSE LET front == sort_by(SubSeq(v, 1, Len(v) - 1))
           x == v[Len(v)]
           k == Cardinality({i \in DOMAIN front : ge(front[i][2], x[2])})
       IN SubSeq(front, 1, k) \o <<x>> \o SubSeq(front, k + 1, Len(front))

\* Counter::most_common
most_common(h, order) == sort_by(collect(h, order))

(* ------------------------------------------------- actions on a Counter *)

\* counter.update(s)
Update(s) ==
  /\ pc = "ready" /\ status = "ok"
  /\ LET st == update(hashmap, s, overflow_checks) IN
       /\ hashmap' = st.hashmap
       /\ status' = st.status
       /\ wrapped' = st.wrapped
       /\ dec_zero' = st.dec_zero
  /\ lastOp' = "update" /\ lastArg' = s /\ pre' = hashmap
  /\ before_update' = <<>>
  /\ items' = <<>>
  /\ par_iter' = NoWorkers
  /\ UNCHANGED <<overflow_checks, pc, opVars, parVars>>

\* counter.subtract(s)
Subtract(s) ==
  /\ pc = "ready" /\ status = "ok"
  /\ LET st == subtract(hashmap, s, overflow_checks) IN
       /\ hashmap' = st.hashmap
       /\ status' = st.status
       /\ wrapped' = st.wrapped
       /\ dec_zero' = st.dec_zero
  /\ lastOp' = "subtract" /\ lastArg' = s /\ pre' = hashmap
  /\ before_update' = IF lastOp = "update" /\ lastArg = s THEN <<pre>> ELSE <<>>
  /\ items' = <<>>
  /\ par_iter' = NoWorkers
  /\ UNCHANGED <<overflow_checks, pc, opVars, parVars>>

\* counter.most_common()
MostCommon ==
  /\ pc = "ready" /\ status = "ok"
  /\ \E order \in Orders(DOMAIN hashmap) : items' = most_common(hashmap, order)
  /\ lastOp' = "most_common" /\ lastArg' = <<>> /\ pre' = hashmap
  /\ before_update' = <<>>
  /\ wrapped' = FALSE /\ dec_zero' = FALSE
  /\ par_iter' = NoWorkers
  /\ UNCHANGED <<hashmap, overflow_checks, status, pc, opVars, parVars>>

\* No count above MaxCount after the step.
Capped == \A k \in DOMAIN hashmap' : le(hashmap'[k], usize(MaxCount))

\* Counter::new() or Counter::init(s), in either build.
Init ==
  /\ overflow_checks \in BOOLEAN
  /\ \E s \in Inputs \cup InitExamples :
       /\ hashmap = init(s, overflow_checks).hashmap
       /\ lastArg = s
  /\ status = "ok" /\ wrapped = FALSE /\ dec_zero = FALSE
  /\ pc = "ready" /\ lastOp = "init" /\ pre = new
  /\ before_update = <<>> /\ items = <<>>
  /\ rhs = new /\ pre_rhs = new /\ counter = new /\ out = <<>>
  /\ par_iter = NoWorkers /\ workers = NoWorkers /\ list = <<>>

Next ==
  \/ \E s \in Inputs : Update(s) /\ Capped
  \/ \E s \in Inputs \cup SubtractExamples : Subtract(s)
  \/ MostCommon

Spec == Init /\ [][Next]_vars

(* ------------------------------------ from_par_iter: rayon_iters.rs *)

\* The ways the parallel iterator over s is split between the two workers.
Splits(s) ==
  {("w1" :> SubSeq(s, 1, k)) @@ ("w2" :> SubSeq(s, k + 1, Len(s))) : k \in 0..Len(s)}

\* par_iter.into_par_iter().collect(): a worker hands its next item to the
\* list; the workers run concurrently, so the items of different workers
\* arrive in any order.
Collect(w) ==
  /\ pc = "collect"
  /\ workers[w] # <<>>
  /\ list' = Append(list, Head(workers[w]))
  /\ workers' = [workers EXCEPT ![w] = Tail(workers[w])]
  /\ UNCHANGED <<hashmap, overflow_checks, status, wrapped, dec_zero, pc, lastOp,
                 lastArg, pre, before_update, items, opVars, par_iter>>

\* The rest of from_par_iter, once the list is whole: Counter::new(), then
\* counter.update(list.into_iter()).
FromParIter ==
  /\ pc = "collect"
  /\ \A w \in Workers : workers[w] = <<>>
  /\ LET st == update(new, list, overflow_checks) IN
       /\ hashmap' = st.hashmap
       /\ status' = st.status
       /\ wrapped' = st.wrapped
       /\ dec_zero' = st.dec_zero
  /\ pc' = "ready"
  /\ lastOp' = "from_par_iter" /\ lastArg' = list /\ pre' = new
  /\ list' = <<>>
  /\ UNCHANGED <<overflow_checks, before_update, items, opVars, par_iter, workers>>

\* from_par_iter is called on a parallel iterator over some sequence.
InitPar ==
  /\ overflow_checks \in BOOLEAN
  /\ \E s \in Inputs \cup ParExamples : par_iter \in Splits(s)
  /\ workers = par_iter /\ list = <<>>
  /\ pc = "collect" /\ hashmap = new
  /\ status = "ok" /\ wrapped = FALSE /\ dec_zero = FALSE
  /\ lastOp = "collect" /\ lastArg = <<>> /\ pre = new
  /\ before_update = <<>> /\ items = <<>>
  /\ rhs = new /\ pre_rhs = new /\ counter = new /\ out = <<>>

NextPar ==
  \/ \E w \in Workers : Collect(w)
  \/ FromParIter
  \/ \E s \in Inputs : Update(s) /\ Capped

SpecPar == InitPar /\ [][NextPar]_vars

(* --------------------------------------------- binary operators: lib.rs *)

BinOps == {"add", "sub", "bitand", "bitor"}

\* One turn of add's loop over rhs: self.hashmap.entry(key).or_insert(0),
\* then *entry += value.
add_entry(st, key, value, checks) ==
  IF st.status # "ok" THEN st
  ELSE add_assign([st EXCEPT !.hashmap = or_insert(st.hashmap, key, ZERO)], key, value, checks)

RECURSIVE add_from(_, _, _, _, _)
add_from(st, d, order, i, checks) ==
  IF i > Len(order) THEN st
  ELSE add_from(add_entry(st, order[i], d[order[i]], checks), d, order, i + 1, checks)

\* c + d.  add clones self into `counter`, adds the entries of rhs to
\* self.hashmap, and ends without a value: `counter` is not returned.
Add ==
  /\ pc = "ready" /\ status = "ok" /\ lastOp \notin BinOps
  /\ counter' = hashmap
  /\ \E order \in Orders(DOMAIN rhs) :
       LET st == add_from(Start(hashmap), rhs, order, 1, overflow_checks) IN
         /\ hashmap' = st.hashmap
         /\ status' = st.status
         /\ wrapped' = st.wrapped
         /\ dec_zero' = st.dec_zero
  /\ out' = <<>>
  /\ lastOp' = "add" /\ pre' = hashmap /\ pre_rhs' = rhs
  /\ UNCHANGED <<overflow_checks, pc, lastArg, before_update, items, rhs,
                 par_iter, parVars>>

\* The body of sub, bitand and bitor: unimplemented!().
Unimplemented(op) ==
  /\ pc = "ready" /\ status = "ok" /\ lastOp \notin BinOps
  /\ status' = "not implemented"
  /\ out' = <<>>
  /\ lastOp' = op /\ pre' = hashmap /\ pre_rhs' = rhs
  /\ UNCHANGED <<hashmap, overflow_checks, wrapped, dec_zero, pc, lastArg,
                 before_update, items, rhs, counter, par_iter, parVars>>

\* c - d
Sub == Unimplemented("sub")

\* c & d
BitAnd == Unimplemented("bitand")

\* c | d
BitOr == Unimplemented("bitor")

\* The operands tried: the counters init builds from the short inputs, and
\* the two of the documented example, {a:2,b:1} and {a:1,c:5}.
Operands ==
  {init(s, TRUE).hashmap : s \in Inputs}
    \cup {init(<<"a", "a", "b">>, TRUE).hashmap,
          init(<<"a", "c", "c", "c", "c", "c">>, TRUE).hashmap}

InitOps ==
  /\ overflow_checks \in BOOLEAN
  /\ hashmap \in Operands
  /\ rhs \in Operands
  /\ status = "ok" /\ wrapped = FALSE /\ dec_zero = FALSE
  /\ pc = "ready" /\ lastOp = "init" /\ lastArg = <<>> /\ pre = new
  /\ before_update = <<>> /\ items = <<>>
  /\ pre_rhs = new /\ counter = new /\ out = <<>>
  /\ par_iter = NoWorkers /\ workers = NoWorkers /\ list = <<>>

NextOps == Sub \/ BitAnd \/ BitOr \/ Add

SpecOps == InitOps /\ [][NextOps]_vars

(* ------------------------------------------- counts at the top of usize *)

\* Within Band of either end of usize.
NearEdge(v) == le(v, usize(Band)) \/ ge(v, wrapping_sub(USIZE_MAX, usize(Band)))

Banded == \A k \in DOMAIN hashmap' : NearEdge(hashmap'[k])

\* A counter some of whose elements have been counted usize::MAX times (by
\* update, or set through the public hashmap field).
InitOverflow ==
  /\ overflow_checks \in BOOLEAN
  /\ \E keys \in SUBSET Elems : hashmap \in [keys -> {ONE, USIZE_MAX}]
  /\ status = "ok" /\ wrapped = FALSE /\ dec_zero = FALSE
  /\ pc = "ready" /\ lastOp = "init" /\ lastArg = <<>> /\ pre = new
  /\ before_update = <<>> /\ items = <<>>
  /\ rhs = new /\ pre_rhs = new /\ counter = new /\ out = <<>>
  /\ par_iter = NoWorkers /\ workers = NoWorkers /\ list = <<>>

NextOverflow ==
  \/ \E s \in Inputs : Update(s) /\ Banded
  \/ \E s \in Inputs : Subtract(s) /\ Banded

SpecOverflow == InitOverflow /\ [][NextOverflow]_vars

(* ------------------------------------------------ properties of Counter *)

\* The number of times x occurs in s.
Occurrences(s, x) == Cardinality({i \in DOMAIN s : s[i] = x})

\* c[x]: the count of x, 0 when x has no entry.
CountOf(h, x) == IF x \in DOMAIN h THEN h[x] ELSE ZERO

\* The mapping with the counts f gives as natural numbers.
Counts(f) == [k \in DOMAIN f |-> usize(f[k])]

\* max(u - w, 0) on usize.
FlooredDifference(u, w) == IF ge(u, w) THEN wrapping_sub(u, w) ELSE ZERO

\* C1: every key present in the mapping has a strictly positive count, in
\* every state reached from new() or init(s) by update and subtract.
FloorInvariant == \A k \in DOMAIN hashmap : hashmap[k] # ZERO /\ ge(hashmap[k], ONE)

\* A subtract has removed one entry and left another.
FloorWitness ==
  /\ lastOp = "subtract"
  /\ "a" \in DOMAIN pre /\ "a" \notin DOMAIN hashmap
  /\ "b" \in DOMAIN hashmap

\* C2: subtract works per occurrence: each element of s in turn is
\* decremented by one if present, and removed at zero, and is left absent
\* if absent; so afterwards x has count max(c[x] - occurrences of x, 0) and
\* has no entry when that is 0.
SubtractSaturates ==
  lastOp = "subtract" =>
    /\ \A i \in DOMAIN lastArg :
         LET before == subtract(pre, SubSeq(lastArg, 1, i - 1), overflow_checks).hashmap
             after == subtract(pre, SubSeq(lastArg, 1, i), overflow_checks).hashmap
             x == lastArg[i]
         IN /\ \A y \in Elems \ {x} : CountOf(after, y) = CountOf(before, y)
            /\ DOMAIN after \ {x} = DOMAIN before \ {x}
            /\ IF x \in DOMAIN before
                 THEN /\ before[x] # ZERO
                      /\ CountOf(after, x) = wrapping_sub(before[x], ONE)
                      /\ x \in DOMAIN after <=> before[x] # ONE
                 ELSE x \notin DOMAIN after
    /\ \A x \in Elems :
         LET n == FlooredDifference(CountOf(pre, x), usize(Occurrences(lastArg, x))) IN
           /\ CountOf(hashmap, x) = n
           /\ x \in DOMAIN hashmap <=> n # ZERO

\* {a:3,b:2} minus [a,a,a,a] is {b:2}.
SubtractWitness ==
  /\ lastOp = "subtract"
  /\ pre = Counts(("a" :> 3) @@ ("b" :> 2))
  /\ lastArg = <<"a", "a", "a", "a">>
  /\ hashmap = Counts(("b" :> 2))

\* C3: init(s) is new() followed by update(s): its keys are exactly the
\* distinct elements of s, each mapped to its number of occurrences in s,
\* and so is the mapping of an update(s) applied to an empty counter.
InitCounts ==
  (lastOp = "init" \/ (lastOp = "update" /\ pre = new)) =>
    /\ DOMAIN hashmap = {lastArg[i] : i \in DOMAIN lastArg}
    /\ \A x \in Elems : CountOf(hashmap, x) = usize(Occurrences(lastArg, x))

\* init([a,b,a,c,a,b]) is {a:3,b:2,c:1}.
InitWitness ==
  /\ lastOp = "init"
  /\ lastArg = <<"a", "b", "a", "c", "a", "b">>
  /\ hashmap = Counts(("a" :> 3) @@ ("b" :> 2) @@ ("c" :> 1))

\* C5: most_common returns the entries of the mapping, each exactly once
\* and nothing else, with counts non-increasing from first to last, and
\* leaves the mapping as it was.
MostCommonSorted ==
  lastOp = "most_common" =>
    /\ \A i, j \in DOMAIN items : i < j => ge(items[i][2], items[j][2])
    /\ Len(items) = Cardinality(DOMAIN hashmap)
    /\ \A k \in DOMAIN hashmap :
         Cardinality({i \in DOMAIN items : items[i] = <<k, hashmap[k]>>}) = 1
    /\ hashmap = pre

\* most_common of {a:3,b:2,c:1} is a, b, c with counts 3, 2, 1.
MostCommonWitness ==
  /\ lastOp = "most_common"
  /\ items = << <<"a", usize(3)>>, <<"b", usize(2)>>, <<"c", usize(1)>> >>

\* C10: update(s) followed by subtract(s) restores the mapping exactly, and
\* the subtract never decrements a count of 0.
RoundTrip ==
  before_update # <<>> =>
    /\ status = "ok"
    /\ hashmap = before_update[1]
    /\ ~dec_zero

\* A round trip over an element that had no entry and one that had.
RoundTripWitness ==
  /\ before_update # <<>>
  /\ lastArg = <<"a", "c">>
  /\ hashmap = Counts(("b" :> 2) @@ ("c" :> 1))

(* ------------------------------------------- properties of from_par_iter *)

\* C4: the counts depend on the multiset of elements only.  from_par_iter
\* returns, whatever the interleaving of the workers, the counter that
\* counts every item of the parallel iterator once; and an update(s) yields
\* the same mapping as update(s') for every permutation s' of s.
OrderIrrelevant ==
  /\ lastOp = "from_par_iter" =>
       LET all == par_iter["w1"] \o par_iter["w2"] IN
         /\ DOMAIN hashmap = {all[i] : i \in DOMAIN all}
         /\ \A x \in Elems : CountOf(hashmap, x) = usize(Occurrences(all, x))
  /\ lastOp = "update" =>
       \A p \in Orders(DOMAIN lastArg) :
         update(pre, [i \in DOMAIN lastArg |-> lastArg[p[i]]], overflow_checks).hashmap
           = hashmap

\* The list was gathered in an order that is not the iterator's.
OrderWitness ==
  /\ lastOp = "from_par_iter"
  /\ par_iter = ("w1" :> <<"a", "b">>) @@ ("w2" :> <<"a">>)
  /\ lastArg = <<"a", "a", "b">>
  /\ hashmap = Counts(("a" :> 2) @@ ("b" :> 1))

(* --------------------------------------- properties of binary operators *)

\* C6: c + d returns a new Counter whose keys are the union of the
\* operands' keys and whose count for x is c[x] + d[x].
AddReturnsSum ==
  lastOp = "add" =>
    out = << [x \in DOMAIN pre \cup DOMAIN pre_rhs |->
               wrapping_add(CountOf(pre, x), CountOf(pre_rhs, x))] >>

\* C7: every binary operator completes and returns a Counter, and never
\* signals "not implemented" or any other abnormal outcome.
OperatorsTotal ==
  lastOp \in BinOps => status = "ok" /\ Len(out) = 1

\* C8: a binary operator leaves both operands as they were.
OperandsUnchanged ==
  lastOp \in BinOps => hashmap = pre /\ rhs = pre_rhs

(* --------------------------------------------------- properties of usize *)

\* C9: update never stores a wrapped count: an increment past the largest
\* count is surfaced, and no count is smaller after an update than before.
NoSilentWrap ==
  lastOp = "update" =>
    /\ ~wrapped
    /\ \A k \in DOMAIN pre : k \in DOMAIN hashmap /\ ge(hashmap[k], pre[k])

====
